---- MODULE Spec2Model ----
(***************************************************************************)
(* A model of server/bridge.py: the entrypoint coroutine (presence gate,    *)
(* session creation and start, shutdown on the last leave) and the five     *)
(* function tools of VoiceAssistant.                                        *)
(*                                                                          *)
(* Everything runs on one asyncio event loop.  An action is one run of a    *)
(* coroutine or callback from one suspension point to the next.  A call of  *)
(* requests.get / requests.post / WEB_CLIENT.responses.create is a          *)
(* synchronous call: while it waits for the service the loop runs nothing   *)
(* else (LoopBlocked).                                                      *)
(*                                                                          *)
(* Python values: None is <<>> and a present optional value v is <<v>>;     *)
(* a str is a sequence of one-character strings.                            *)
(***************************************************************************)
EXTENDS Integers, Sequences, FiniteSets, TLC

\* ---------------------------------------------------------------- bounds
MaxParticipants == 2
MaxJoins == 2
MaxCalls == 2
MaxStrLen == 2
MaxPriorityInput == 6
ItemsMargin == 2
LimitBelow == 2
TimerMargin == 2

\* ------------------------------------------------------ program constants
MinPriority == 1
MaxPriority == 4
HttpErrorStatus == 400
RequestTimeout == 10
DefaultLimit == 10
MinTimer == 1
MaxTimer == 300

\* ------------------------------------------------------- Python helpers
None == <<>>
Some(v) == <<v>>

Chars == {" ", "a"}

StringsUpTo(n) == UNION {[1..k -> Chars] : k \in 0..n}

\* str.strip(): leading and trailing whitespace removed
RECURSIVE LStrip(_)
LStrip(s) ==
    IF s = <<>> THEN s
    ELSE IF Head(s) = " " THEN LStrip(Tail(s)) ELSE s

RECURSIVE RStrip(_)
RStrip(s) ==
    IF s = <<>> THEN s
    ELSE IF s[Len(s)] = " " THEN RStrip(SubSeq(s, 1, Len(s) - 1)) ELSE s

Strip(s) == RStrip(LStrip(s))

\* s[:k], also for negative k
PySliceTo(s, k) ==
    LET n == Len(s)
        stop == IF k >= 0 THEN (IF k < n THEN k ELSE n)
                ELSE (IF n + k > 0 THEN n + k ELSE 0)
    IN SubSeq(s, 1, stop)

\* ----------------------------------------------------------------- state
VARIABLES
    environ,            \* os.environ after load_dotenv(): name -> None or a value
    token,              \* the value of TODOIST_TOKEN in the environment
    pc,                 \* where entrypoint is suspended
    remote,             \* len(ctx.room.remote_participants)
    initial_remote,     \* history: that number when ctx.connect() returned
    joins,              \* history: participant_connected notifications delivered
    someone_present,    \* the asyncio.Event of the presence gate
    on_connected,       \* _on_participant_connected is registered
    on_disconnected,    \* _on_participant_disconnected is registered
    session,            \* the AgentSession: none, starting, started, closed
    sessions_created,   \* number of AgentSession(...) constructions
    close_requests,     \* number of session.aclose() calls
    greetings,          \* number of generate_reply calls made by on_enter
    calls               \* the tool calls, by slot

vars == <<environ, token, pc, remote, initial_remote, joins, someone_present,
          on_connected, on_disconnected, session, sessions_created,
          close_requests, greetings, calls>>

bridgeVars == <<pc, remote, initial_remote, joins, someone_present,
                on_connected, on_disconnected, session, sessions_created,
                close_requests, greetings>>

CallIds == 1..MaxCalls

IdleCall ==
    [tool |-> "none", args |-> [none |-> TRUE], phase |-> "idle",
     sent |-> <<>>, response |-> <<>>, said |-> <<>>, waits |-> 0,
     slept |-> <<>>, results |-> <<>>, raised |-> <<>>]

\* a bug: the timer waits with time.sleep, which holds the loop
LoopBlocked_Sleep ==
    \E i \in CallIds : calls[i].phase \in {"http", "sleeping"}

\* A synchronous HTTP call is waiting for its answer: the loop runs nothing.
LoopBlocked == \E i \in CallIds : calls[i].phase = "http"


\* ---------------------------------------------------------- tool inputs
Tokens == {"", "tok"}

OptShort == {None} \cup {Some(s) : s \in StringsUpTo(1)}

CreateArgs ==
    [content : {None} \cup {Some(s) : s \in StringsUpTo(MaxStrLen)},
     due : OptShort,
     project_id : OptShort,
     priority : {None} \cup {Some(p) : p \in (-MaxPriorityInput)..MaxPriorityInput}]

\* the numbers of open tasks the service may hold: few, or more than the default
ItemCounts == (0..ItemsMargin) \cup {DefaultLimit + ItemsMargin}

LimitInputs ==
    ((-LimitBelow)..(ItemsMargin + 1))
        \cup ((DefaultLimit - 1)..(DefaultLimit + ItemsMargin + 1))

ListArgs ==
    [project_id : OptShort,
     filter : OptShort,
     limit : {None} \cup {Some(n) : n \in LimitInputs}]

CompleteArgs == [id : StringsUpTo(1)]

TimerInputs ==
    ((MinTimer - TimerMargin)..(MinTimer + TimerMargin))
        \cup ((MaxTimer - TimerMargin)..(MaxTimer + TimerMargin))

TimerArgs == [seconds : TimerInputs]

SearchArgs == [query : StringsUpTo(1)]

ToolCalls ==
    {[tool |-> "create_reminder", args |-> a] : a \in CreateArgs}
        \cup {[tool |-> "list_reminders", args |-> a] : a \in ListArgs}
        \cup {[tool |-> "complete_reminder", args |-> a] : a \in CompleteArgs}
        \cup {[tool |-> "start_timer", args |-> a] : a \in TimerArgs}
        \cup {[tool |-> "search_web", args |-> a] : a \in SearchArgs}

\* The calls the model issues while the bridge runs: a tool that catches the
\* failures of its request, one that does not, and the one that suspends.
\* (SpecTools runs every tool on every argument.)
SessionCalls ==
    {[tool |-> "create_reminder",
      args |-> [content |-> Some(<<"a">>), due |-> None,
                project_id |-> None, priority |-> Some(5)]],
     [tool |-> "complete_reminder", args |-> [id |-> <<"a">>]],
     [tool |-> "start_timer", args |-> [seconds |-> MinTimer]]}

NewCall(tc) == [IdleCall EXCEPT !.tool = tc.tool, !.args = tc.args,
                                !.phase = "called"]

\* ------------------------------------------------- outcomes of a tool run
Return(c, v) == [c EXCEPT !.phase = "returned", !.results = Append(@, v)]

Raise(c, e) == [c EXCEPT !.phase = "raised", !.raised = Append(@, e)]

Send(c, req) == [c EXCEPT !.phase = "http", !.sent = Append(@, req)]

NeedDescription == [msg |-> "I need a task description (e.g., 'Call Alice')."]

TimerRejection == [msg |-> "Timers must be between 1 and 300 seconds."]

NoDate == <<"no date">>

\* --------------------------------------------------------- create_reminder
\* a bug: the content is not stripped before the emptiness test
CreateText_NoStrip(content) == IF content = None THEN <<>> ELSE content[1]

CreateText(content) == Strip(IF content = None THEN <<>> ELSE content[1])

\* a bug: the upper end of the clamp is missing
CreatePrio_NoUpper(priority) ==
    LET p0 == IF priority = None \/ priority[1] = 0
              THEN MinPriority ELSE priority[1]
    IN IF p0 < MinPriority THEN MinPriority ELSE p0

CreatePrio(priority) ==
    LET p0 == IF priority = None \/ priority[1] = 0
              THEN MinPriority ELSE priority[1]
        p1 == IF p0 < MinPriority THEN MinPriority ELSE p0
    IN IF p1 > MaxPriority THEN MaxPriority ELSE p1

\* an optional str argument kept only when it has a non-blank value
StrippedOrAbsent(opt) ==
    IF opt # None /\ Strip(opt[1]) # <<>> THEN Some(Strip(opt[1])) ELSE None

CreateBody(args) ==
    [content |-> CreateText(args.content),
     priority |-> CreatePrio(args.priority),
     due_string |-> StrippedOrAbsent(args.due),
     project_id |-> StrippedOrAbsent(args.project_id)]

BeginCreate(c) ==
    IF token = "" THEN Raise(c, "AssertionError")
    ELSE IF CreateText(c.args.content) = <<>> THEN Return(c, NeedDescription)
    ELSE Send(c, [method |-> "POST", url |-> <<"tasks">>,
                  body |-> CreateBody(c.args), timeout |-> RequestTimeout])

\* a bug: the message is looked up under a key the service does not use
RejectionDetail_WrongKey(body) ==
    [dict |-> IF body.kind = "json" THEN body.error
              ELSE IF body.text = "" THEN None ELSE Some(body.text)]

\* err.get('error') or err, with err the JSON body or {"error": r.text}
RejectionDetail(body) ==
    LET err == IF body.kind = "json" THEN body.error
               ELSE IF body.text = "" THEN None ELSE Some(body.text)
    IN IF err # None /\ err[1] # "" THEN [text |-> err[1]]
       ELSE [dict |-> err]

FinishCreate(c, resp) ==
    IF resp.net = "error"
    THEN Return(c, [msg |-> "Todoist error: ", exc |-> resp.exc])
    ELSE IF resp.status >= HttpErrorStatus
    THEN Return(c, [msg |-> "Todoist rejected the request: ",
                    detail |-> RejectionDetail(resp.body)])
    ELSE LET t == resp.body.task
         IN Return(c, [msg |-> "Created reminder: ", content |-> t.content,
                       when |-> IF t.due = None THEN NoDate ELSE t.due[1].string,
                       id |-> t.id])

\* ---------------------------------------------------------- list_reminders
\* params: a key is present only when its argument is truthy
Truthy(opt) == IF opt # None /\ opt[1] # <<>> THEN opt ELSE None

BeginList(c) ==
    IF token = "" THEN Raise(c, "RuntimeError")
    ELSE Send(c, [method |-> "GET", url |-> <<"tasks">>,
                  params |-> [project_id |-> Truthy(c.args.project_id),
                              filter |-> Truthy(c.args.filter)],
                  timeout |-> RequestTimeout])

\* limit or 10
ListBound(limit) ==
    IF limit = None \/ limit[1] = 0 THEN DefaultLimit ELSE limit[1]

Compact(t) ==
    [id |-> t.id, content |-> t.content,
     due |-> IF t.due = None THEN None ELSE Some(t.due[1].string),
     project_id |-> t.project_id, priority |-> t.priority, url |-> t.url,
     completed |-> FALSE]

ListOut(items, limit) ==
    LET cut == PySliceTo(items, ListBound(limit))
    IN [k \in 1..Len(cut) |-> Compact(cut[k])]

FinishList(c, resp) ==
    IF resp.net = "error" THEN Raise(c, resp.exc)
    ELSE IF resp.status >= HttpErrorStatus THEN Raise(c, "HTTPError")
    ELSE Return(c, [list |-> ListOut(resp.body.items, c.args.limit)])

\* ------------------------------------------------------- complete_reminder
BeginComplete(c) ==
    IF token = "" THEN Raise(c, "AssertionError")
    ELSE Send(c, [method |-> "POST", url |-> <<"tasks", c.args.id, "close">>,
                  timeout |-> RequestTimeout])

FinishComplete(c, resp) ==
    IF resp.net = "error" THEN Raise(c, resp.exc)
    ELSE IF resp.status >= HttpErrorStatus THEN Raise(c, "HTTPError")
    ELSE Return(c, [msg |-> "Done. Reminder completed.", id |-> c.args.id])

\* ------------------------------------------------------------- start_timer
\* a bug: the lower end of the range test is off by one
TimerOutOfRange_LowerOff(seconds) == seconds < MinTimer - 1 \/ seconds > MaxTimer

TimerOutOfRange(seconds) == seconds < MinTimer \/ seconds > MaxTimer

\* a bug: the timer starts without saying so
BeginTimer_NoStart(c) ==
    IF TimerOutOfRange(c.args.seconds) THEN Return(c, TimerRejection)
    ELSE [c EXCEPT !.phase = "say_start"]

BeginTimer(c) ==
    IF TimerOutOfRange(c.args.seconds) THEN Return(c, TimerRejection)
    ELSE [c EXCEPT !.phase = "say_start",
                   !.said = Append(@, "Timer started")]

\* -------------------------------------------------------------- search_web
BeginSearch(c) ==
    Send(c, [method |-> "responses.create", query |-> c.args.query])

FinishSearch(c, resp) ==
    IF resp.net = "error" THEN Raise(c, resp.exc)
    ELSE Return(c, [output_text |-> resp.body.text])

\* ------------------------------------------------ the services' answers
NoBody == [kind |-> "none"]

NetFailures ==
    {[net |-> "error", exc |-> e, status |-> 0, body |-> NoBody] :
        e \in {"Timeout", "ConnectionError"}}

HttpFailures ==
    {[net |-> "ok", exc |-> "", status |-> 400,
      body |-> [kind |-> "json", error |-> Some("invalid due date"), text |-> ""]],
     [net |-> "ok", exc |-> "", status |-> 404,
      body |-> [kind |-> "json", error |-> None, text |-> ""]],
     [net |-> "ok", exc |-> "", status |-> 500,
      body |-> [kind |-> "text", error |-> None, text |-> "Server Error"]]}

Ok(status, body) == [net |-> "ok", exc |-> "", status |-> status, body |-> body]

\* the task the service answers a create request with
CreatedTasks(body) ==
    {[id |-> "t1", content |-> body.content, due |-> d] :
        d \in {None} \cup (IF body.due_string = None THEN {}
                           ELSE {Some([string |-> body.due_string[1]])})}

\* the k-th open task of the account
TaskJson(k) ==
    [id |-> k, content |-> <<"a">>,
     due |-> IF k % 2 = 0 THEN None ELSE Some([string |-> <<"a">>]),
     project_id |-> "p", priority |-> 1 + (k % 4), url |-> k]

Items(n) == [k \in 1..n |-> TaskJson(k)]

Responses(c) ==
    CASE c.tool = "create_reminder" ->
            NetFailures \cup HttpFailures
                \cup {Ok(200, [kind |-> "task", task |-> t]) :
                        t \in CreatedTasks(c.sent[Len(c.sent)].body)}
      [] c.tool = "list_reminders" ->
            NetFailures \cup HttpFailures
                \cup {Ok(200, [kind |-> "items", items |-> Items(n)]) :
                        n \in ItemCounts}
      [] c.tool = "complete_reminder" ->
            NetFailures \cup HttpFailures \cup {Ok(204, NoBody)}
      [] c.tool = "search_web" ->
            {[net |-> "error", exc |-> "APIError", status |-> 0, body |-> NoBody],
             Ok(200, [kind |-> "text", text |-> "summary"])}

\* ---------------------------------------------------------- tool actions
Begin(c) ==
    CASE c.tool = "create_reminder" -> BeginCreate(c)
      [] c.tool = "list_reminders" -> BeginList(c)
      [] c.tool = "complete_reminder" -> BeginComplete(c)
      [] c.tool = "start_timer" -> BeginTimer(c)
      [] c.tool = "search_web" -> BeginSearch(c)

Finish(c, resp) ==
    LET d == [c EXCEPT !.response = Some(resp)]
    IN CASE c.tool = "create_reminder" -> FinishCreate(d, resp)
         [] c.tool = "list_reminders" -> FinishList(d, resp)
         [] c.tool = "complete_reminder" -> FinishComplete(d, resp)
         [] c.tool = "search_web" -> FinishSearch(d, resp)

\* the session hands a tool call of the model to the agent
Dispatch(i, tc) ==
    /\ session = "started"
    /\ ~LoopBlocked
    /\ calls[i].phase = "idle"
    /\ \A j \in 1..(i - 1) : calls[j].phase # "idle"
    /\ calls' = [calls EXCEPT ![i] = NewCall(tc)]
    /\ UNCHANGED <<environ, token, bridgeVars>>

\* the tool coroutine runs up to its first await or its synchronous request
BeginCall(i) ==
    /\ calls[i].phase = "called"
    /\ ~LoopBlocked
    /\ calls' = [calls EXCEPT ![i] = Begin(@)]
    /\ UNCHANGED <<environ, token, bridgeVars>>

\* the synchronous request returns or fails, and the tool runs to its end
ServiceResponds(i) ==
    /\ calls[i].phase = "http"
    /\ \E resp \in Responses(calls[i]) :
          calls' = [calls EXCEPT ![i] = Finish(@, resp)]
    /\ UNCHANGED <<environ, token, bridgeVars>>

\* await context.say("Timer started ...") is over: asyncio.sleep begins
TimerSleeps(i) ==
    /\ calls[i].phase = "say_start"
    /\ ~LoopBlocked
    /\ calls' = [calls EXCEPT ![i].phase = "sleeping", ![i].waits = @ + 1,
                              ![i].slept = Append(@, calls[i].args.seconds)]
    /\ UNCHANGED <<environ, token, bridgeVars>>

\* asyncio.sleep(seconds) is over: the timer announces the end
TimerWakes(i) ==
    /\ calls[i].phase = "sleeping"
    /\ ~LoopBlocked
    /\ calls' = [calls EXCEPT ![i].phase = "say_done",
                              ![i].said = Append(@, "Timer done.")]
    /\ UNCHANGED <<environ, token, bridgeVars>>

\* await context.say("Timer done.") is over: the tool returns
TimerReturns(i) ==
    /\ calls[i].phase = "say_done"
    /\ ~LoopBlocked
    /\ calls' = [calls EXCEPT ![i] =
                    Return(@, [msg |-> "Timer finished after seconds.",
                               seconds |-> @.args.seconds])]
    /\ UNCHANGED <<environ, token, bridgeVars>>

ToolStep ==
    \E i \in CallIds :
        \/ BeginCall(i)
        \/ ServiceResponds(i)
        \/ TimerSleeps(i)
        \/ TimerWakes(i)
        \/ TimerReturns(i)


\* -------------------------------------------------------------- entrypoint
\* a bug: the gate never waits
GateOpen_Always(present) == TRUE

\* line 226: the gate is passed without waiting when the event is set
GateOpen(present) == present

\* lines 231-282, run without suspension: AgentSession(...) is constructed,
\* the session and room handlers are registered, session.start is called
CreateAndStart ==
    /\ sessions_created' = sessions_created + 1
    /\ session' = "starting"
    /\ on_disconnected' = TRUE
    /\ pc' = "starting"

\* ctx.connect() returns with n remote participants in the room; entrypoint
\* runs on to someone_present.wait(), or to session.start when the gate is open
ConnectReturns(n) ==
    /\ pc = "connecting"
    /\ remote' = n
    /\ initial_remote' = n
    /\ someone_present' = (n > 0)
    /\ on_connected' = TRUE
    /\ IF GateOpen(n > 0)
       THEN CreateAndStart
       ELSE /\ pc' = "waiting"
            /\ UNCHANGED <<session, sessions_created, on_disconnected>>
    /\ UNCHANGED <<environ, token, joins, close_requests, greetings, calls>>

\* someone_present.wait() returns once the event is set and the loop gets
\* back to entrypoint
WaitResumes ==
    /\ pc = "waiting"
    /\ someone_present
    /\ ~LoopBlocked
    /\ CreateAndStart
    /\ UNCHANGED <<environ, token, remote, initial_remote, joins, someone_present,
                   on_connected, close_requests, greetings, calls>>

\* a bug: entrypoint asks for a greeting of its own after on_enter's
StartCompletes_GreetsAgain ==
    /\ pc = "starting"
    /\ ~LoopBlocked
    /\ pc' = "ready"
    /\ IF session = "starting"
       THEN session' = "started" /\ greetings' = greetings + 2
       ELSE UNCHANGED <<session, greetings>>
    /\ UNCHANGED <<environ, token, remote, initial_remote, joins, someone_present,
                   on_connected, on_disconnected, sessions_created,
                   close_requests, calls>>

\* session.start(...) returns; a session that starts enters the agent, whose
\* on_enter asks the model for the greeting
StartCompletes ==
    /\ pc = "starting"
    /\ ~LoopBlocked
    /\ pc' = "ready"
    /\ IF session = "starting"
       THEN session' = "started" /\ greetings' = greetings + 1
       ELSE UNCHANGED <<session, greetings>>
    /\ UNCHANGED <<environ, token, remote, initial_remote, joins, someone_present,
                   on_connected, on_disconnected, sessions_created,
                   close_requests, calls>>

\* --------------------------------------------------------- room handlers
\* a bug: the handler flips the flag on every notification
FlagAfterJoin_Toggle(registered, flag) == IF registered THEN ~flag ELSE flag

\* _on_participant_connected: sets the event when it is not set yet
FlagAfterJoin(registered, flag) ==
    IF registered /\ ~flag THEN TRUE ELSE flag

\* the room adds a participant and emits participant_connected
ParticipantConnected ==
    /\ pc \notin {"import", "failed", "connecting"}
    /\ ~LoopBlocked
    /\ remote < MaxParticipants
    /\ joins < MaxJoins
    /\ remote' = remote + 1
    /\ joins' = joins + 1
    /\ someone_present' = FlagAfterJoin(on_connected, someone_present)
    /\ UNCHANGED <<environ, token, pc, initial_remote, on_connected, on_disconnected,
                   session, sessions_created, close_requests, greetings, calls>>

\* await session.aclose(): the session is closed, or the call raises out of
\* the handler and the session is as it was
AfterClose(s, ok) == IF ok THEN "closed" ELSE s

\* the room removes a participant and emits participant_disconnected
ParticipantDisconnected ==
    /\ pc \notin {"import", "failed", "connecting"}
    /\ ~LoopBlocked
    /\ remote > 0
    /\ remote' = remote - 1
    /\ IF on_disconnected /\ remote' = 0
       THEN /\ close_requests' = close_requests + 1
            /\ \E ok \in BOOLEAN : session' = AfterClose(session, ok)
       ELSE UNCHANGED <<close_requests, session>>
    /\ UNCHANGED <<environ, token, pc, initial_remote, joins, someone_present,
                   on_connected, on_disconnected, sessions_created,
                   greetings, calls>>

RoomEvent == ParticipantConnected \/ ParticipantDisconnected

\* ------------------------------------------------------- module load
EnvNames == {"LIVEKIT_URL", "OPENAI_API_KEY", "ROOM_NAME", "TODOIST_TOKEN"}

\* a bug: ROOM_NAME is read with os.environ[...] too
RequiredEnv_WithRoom == EnvNames

\* lines 25-29: the names read with os.environ[...]
RequiredEnv == {"LIVEKIT_URL", "OPENAI_API_KEY", "TODOIST_TOKEN"}

\* the environments: each name unset or set, TODOIST_TOKEN to any token
Environs ==
    {e \in [EnvNames -> {None} \cup {Some(t) : t \in Tokens}] :
        \A n \in EnvNames \ {"TODOIST_TOKEN"} : e[n] # Some("")}

\* the environment of a module that has loaded, with the token it read
LoadedEnviron(t) ==
    [n \in EnvNames |->
        IF n = "TODOIST_TOKEN" THEN Some(t)
        ELSE IF n = "ROOM_NAME" THEN None ELSE Some("tok")]

\* lines 23-29 run at import: a missing required name raises KeyError and
\* the process ends; otherwise the worker starts and runs entrypoint
ModuleLoad ==
    /\ pc = "import"
    /\ IF \E n \in RequiredEnv : environ[n] = None
       THEN pc' = "failed" /\ token' = token
       ELSE pc' = "connecting" /\ token' = environ["TODOIST_TOKEN"][1]
    /\ UNCHANGED <<environ, remote, initial_remote, joins, someone_present,
                   on_connected, on_disconnected, session, sessions_created,
                   close_requests, greetings, calls>>

\* ------------------------------------------------------- specifications
\* the worker has started the job: entrypoint awaits ctx.connect()
Init ==
    /\ token \in Tokens
    /\ environ = LoadedEnviron(token)
    /\ pc = "connecting"
    /\ remote = 0
    /\ initial_remote = 0
    /\ joins = 0
    /\ someone_present = FALSE
    /\ on_connected = FALSE
    /\ on_disconnected = FALSE
    /\ session = "none"
    /\ sessions_created = 0
    /\ close_requests = 0
    /\ greetings = 0
    /\ calls = [i \in CallIds |-> IdleCall]

Next ==
    \/ \E n \in 0..MaxParticipants : ConnectReturns(n)
    \/ WaitResumes
    \/ StartCompletes
    \/ ParticipantConnected
    \/ ParticipantDisconnected
    \/ \E i \in CallIds, tc \in SessionCalls : Dispatch(i, tc)
    \/ ToolStep

Spec == Init /\ [][Next]_vars

\* One tool call, with any arguments, issued in a started session.
InitTools ==
    /\ token \in Tokens
    /\ environ = LoadedEnviron(token)
    /\ pc = "ready"
    /\ remote = 1
    /\ initial_remote = 1
    /\ joins = 0
    /\ someone_present = TRUE
    /\ on_connected = TRUE
    /\ on_disconnected = TRUE
    /\ session = "started"
    /\ sessions_created = 1
    /\ close_requests = 0
    /\ greetings = 1
    /\ \E tc \in ToolCalls :
          calls = [i \in CallIds |-> IF i = 1 THEN NewCall(tc) ELSE IdleCall]

NextTools == ToolStep

SpecTools == InitTools /\ [][NextTools]_vars

\* The process starts in any environment and imports the module.
InitStartup ==
    /\ environ \in Environs
    /\ token = ""
    /\ pc = "import"
    /\ remote = 0
    /\ initial_remote = 0
    /\ joins = 0
    /\ someone_present = FALSE
    /\ on_connected = FALSE
    /\ on_disconnected = FALSE
    /\ session = "none"
    /\ sessions_created = 0
    /\ close_requests = 0
    /\ greetings = 0
    /\ calls = [i \in CallIds |-> IdleCall]

NextStartup ==
    \/ ModuleLoad
    \/ \E n \in 0..MaxParticipants : ConnectReturns(n)
    \/ WaitResumes
    \/ StartCompletes
    \/ ParticipantConnected
    \/ ParticipantDisconnected

SpecStartup == InitStartup /\ [][NextStartup]_vars


\* ------------------------------------------------------------ properties
Finished(c) == c.phase \in {"returned", "raised"}

\* the service did not do what the request asked: no answer, or a 4xx/5xx
ServiceFailed(c) ==
    /\ c.response # None
    /\ \/ c.response[1].net = "error"
       \/ c.response[1].status \notin 200..299

\* a returned message that tells of a failure
IsErrorResult(v) ==
    /\ "msg" \in DOMAIN v
    /\ v.msg \in {"Todoist error: ", "Todoist rejected the request: "}

Blank(s) == \A k \in 1..Len(s) : s[k] = " "

\* the point of lo..hi nearest to p
Clamp(p, lo, hi) ==
    CHOOSE v \in lo..hi :
        \A w \in lo..hi :
            (IF v > p THEN v - p ELSE p - v) <= (IF w > p THEN w - p ELSE p - w)

\* C1: a room that is empty when connect returns gets no session before a
\* participant_connected notification has been delivered; the session is
\* created exactly once, whatever joins and leaves follow: none before
\* the gate is passed, one after it, never two.
C1_PresenceGate ==
    /\ sessions_created <= 1
    /\ (initial_remote = 0 /\ joins = 0) => sessions_created = 0
    /\ pc \in {"connecting", "waiting"} => sessions_created = 0 /\ session = "none"
    /\ pc \in {"starting", "ready"} => sessions_created = 1 /\ session # "none"

C1_Witness ==
    /\ initial_remote = 0
    /\ pc = "ready"
    /\ joins >= 2
    /\ remote = 0
    /\ close_requests >= 1
    /\ sessions_created = 1

\* C2: every participant_disconnected notification after connect that leaves
\* the room empty comes with a close request (session.aclose), and once a
\* close request has been made no tool call is dispatched.
C2_Teardown ==
    [][/\ (pc # "connecting" /\ remote = 1 /\ remote' = 0)
            => close_requests' = close_requests + 1
       /\ close_requests > 0
            => \A i \in CallIds :
                  calls[i].phase = "idle" => calls'[i].phase = "idle"]_vars

\* C3: when the session is created and started the room has at least one
\* remote participant.
C3_NoSessionWhileEmpty ==
    [][sessions_created' # sessions_created => remote' > 0]_vars

\* C4: every tool call made with the credential configured ends with exactly
\* one result, and when the service failed that result is an error message.
C4_OneResultPerCall ==
    \A i \in CallIds :
        (token # "" /\ Finished(calls[i])) =>
            /\ Len(calls[i].results) = 1
            /\ ServiceFailed(calls[i]) => IsErrorResult(calls[i].results[1])

\* C5: in create_reminder, list_reminders and complete_reminder a network
\* failure or a non-2xx answer is caught in the tool and returned as an error
\* message; the tool raises nothing.
C5_FailuresCaught ==
    \A i \in CallIds :
        (/\ calls[i].tool \in {"create_reminder", "list_reminders",
                               "complete_reminder"}
         /\ ServiceFailed(calls[i])) =>
            /\ calls[i].phase = "returned"
            /\ calls[i].raised = <<>>
            /\ calls[i].results # <<>>
            /\ IsErrorResult(calls[i].results[1])

\* C6: a start_timer call with seconds outside 1..300 announces nothing,
\* never waits, and returns the fixed rejection message.
C6_TimerRejected ==
    \A i \in CallIds :
        (/\ calls[i].tool = "start_timer"
         /\ calls[i].args.seconds \notin 1..300) =>
            /\ calls[i].said = <<>>
            /\ calls[i].waits = 0
            /\ calls[i].phase \in {"called", "returned"}
            /\ calls[i].phase = "returned" => calls[i].results = <<TimerRejection>>

C6_Witness ==
    \E i \in CallIds :
        /\ calls[i].tool = "start_timer"
        /\ calls[i].args.seconds = 0
        /\ calls[i].phase = "returned"
        /\ calls[i].results = <<TimerRejection>>
        /\ calls[i].said = <<>>

BlankCreate(c) ==
    /\ c.tool = "create_reminder"
    /\ c.args.content # None
    /\ Blank(c.args.content[1])

C8_PriorityClamped ==
    \A i \in CallIds :
        calls[i].tool = "create_reminder" =>
            /\ \A k \in 1..Len(calls[i].sent) :
                  /\ calls[i].sent[k].body.priority \in 1..4
                  /\ calls[i].args.priority # None =>
                        calls[i].sent[k].body.priority
                            = Clamp(calls[i].args.priority[1], 1, 4)
            /\ (/\ token # ""
                /\ calls[i].phase # "called"
                /\ calls[i].args.content # None
                /\ ~Blank(calls[i].args.content[1])) => Len(calls[i].sent) = 1

C8_Witness ==
    \E i \in CallIds :
        /\ calls[i].tool = "create_reminder"
        /\ calls[i].args.content = Some(<<"a">>)
        /\ calls[i].args.priority = Some(5)
        /\ calls[i].phase = "returned"
        /\ Len(calls[i].sent) = 1
        /\ calls[i].sent[1].body.priority = 4

\* C9: list_reminders returns the tasks of the service's answer, in its
\* order and with the seven fields, cut to a prefix of at most limit tasks;
\* a limit that is absent or invalid (below 1) stands for 10.
C9_ListBounded ==
    \A i \in CallIds :
        (calls[i].tool = "list_reminders" /\ calls[i].phase = "returned") =>
            LET out == calls[i].results[1].list
                items == calls[i].response[1].body.items
                limit == calls[i].args.limit
            IN /\ Len(out) <= Len(items)
               /\ \A k \in 1..Len(out) :
                     /\ out[k].id = items[k].id
                     /\ out[k].content = items[k].content
                     /\ out[k].due = (IF items[k].due = None THEN None
                                      ELSE Some(items[k].due[1].string))
                     /\ out[k].project_id = items[k].project_id
                     /\ out[k].priority = items[k].priority
                     /\ out[k].url = items[k].url
                     /\ out[k].completed = FALSE
               /\ IF limit # None /\ limit[1] >= 1
                  THEN Len(out) <= limit[1]
                  ELSE Len(out) <= 10

\* C10: while a tool waits for the answer to its HTTP request the loop still
\* handles room events: a participant's leave can be handled before the
\* answer comes.
C10_LoopNotBlocked ==
    ((\E i \in CallIds : calls[i].phase = "http") /\ remote > 0)
        => ENABLED ParticipantDisconnected

\* an answer with an HTTP status of 400 or more and a JSON body {"error": msg}
JsonRejection(resp) ==
    /\ resp.net = "ok"
    /\ resp.status >= HttpErrorStatus
    /\ resp.body.kind = "json"
    /\ resp.body.error # None

\* C11: when the task service answers create_reminder with a status of 400 or
\* more and a JSON body {"error": msg}, the call returns one error message
\* that carries msg, raises nothing, and the step neither closes the session
\* nor issues a close request.
C11_RejectionReturned ==
    [][\A i \in CallIds :
        (/\ calls[i].tool = "create_reminder"
         /\ calls[i].phase = "http"
         /\ calls'[i].phase # "http"
         /\ calls'[i].response # None
         /\ JsonRejection(calls'[i].response[1]))
        => /\ calls'[i].phase = "returned"
           /\ calls'[i].raised = <<>>
           /\ Len(calls'[i].results) = 1
           /\ IsErrorResult(calls'[i].results[1])
           /\ calls'[i].results[1].detail =
                  [text |-> calls'[i].response[1].body.error[1]]
           /\ session' = session
           /\ close_requests' = close_requests]_vars

C11_Witness ==
    \E i \in CallIds :
        /\ calls[i].tool = "create_reminder"
        /\ calls[i].phase = "returned"
        /\ calls[i].response # None
        /\ JsonRejection(calls[i].response[1])
        /\ calls[i].results[1].detail = [text |-> "invalid due date"]
        /\ session = "started"
        /\ close_requests = 0

\* C12: once the module has been imported, startup has failed exactly when
\* LIVEKIT_URL, OPENAI_API_KEY or TODOIST_TOKEN is missing from the
\* environment (a missing ROOM_NAME alone does not make it fail), and a failed
\* startup has attempted no room connection: entrypoint never ran.
C12_StartupConfig ==
    pc # "import" =>
        /\ pc = "failed" <=>
              \/ environ["LIVEKIT_URL"] = None
              \/ environ["OPENAI_API_KEY"] = None
              \/ environ["TODOIST_TOKEN"] = None
        /\ pc = "failed" =>
              /\ remote = 0 /\ initial_remote = 0 /\ joins = 0
              /\ ~on_connected /\ ~someone_present
              /\ session = "none" /\ sessions_created = 0

C12_Witness ==
    /\ pc = "failed"
    /\ environ["TODOIST_TOKEN"] = None
    /\ environ["LIVEKIT_URL"] # None
    /\ environ["OPENAI_API_KEY"] # None
    /\ environ["ROOM_NAME"] # None

\* C13: a start_timer call with seconds in 1..300 makes exactly two
\* announcements, in this order: the start announcement, then one wait of
\* the requested duration, then the done announcement; the completion message
\* is returned only after the done announcement, and nothing is raised.
C13_TimerOrder ==
    \A i \in CallIds :
        LET c == calls[i]
            started == <<"Timer started">>
            done == <<"Timer started", "Timer done.">>
        IN (c.tool = "start_timer" /\ c.args.seconds \in 1..300) =>
            /\ c.raised = <<>>
            /\ CASE c.phase = "called" ->
                      c.said = <<>> /\ c.slept = <<>> /\ c.results = <<>>
                 [] c.phase = "say_start" ->
                      c.said = started /\ c.slept = <<>> /\ c.results = <<>>
                 [] c.phase = "sleeping" ->
                      /\ c.said = started
                      /\ c.slept = <<c.args.seconds>>
                      /\ c.results = <<>>
                 [] c.phase = "say_done" ->
                      /\ c.said = done
                      /\ c.slept = <<c.args.seconds>>
                      /\ c.results = <<>>
                 [] c.phase = "returned" ->
                      /\ c.said = done
                      /\ c.slept = <<c.args.seconds>>
                      /\ c.results = <<[msg |-> "Timer finished after seconds.",
                                        seconds |-> c.args.seconds]>>
                 [] OTHER -> FALSE

C13_Witness ==
    \E i \in CallIds :
        /\ calls[i].tool = "start_timer"
        /\ calls[i].args.seconds = 300
        /\ calls[i].phase = "returned"
        /\ Len(calls[i].said) = 2
        /\ calls[i].slept = <<300>>

\* C14: while a start_timer call is in its wait and no request holds the
\* loop, the bridge can take a participant's leave or join, can begin another
\* call that has been issued and can be handed a new call, all before the
\* timer's done announcement; a call issued after the timer can so complete
\* before it.
C14_WaitDoesNotBlock ==
    \A i \in CallIds :
        (/\ calls[i].tool = "start_timer"
         /\ calls[i].phase = "sleeping"
         /\ \A j \in CallIds : calls[j].phase # "http")
        => /\ remote > 0 => ENABLED ParticipantDisconnected
           /\ (remote < MaxParticipants /\ joins < MaxJoins)
                 => ENABLED ParticipantConnected
           /\ \A j \in CallIds :
                 calls[j].phase = "called" => ENABLED BeginCall(j)
           /\ \A j \in CallIds :
                 (/\ session = "started"
                  /\ calls[j].phase = "idle"
                  /\ \A k \in 1..(j - 1) : calls[k].phase # "idle")
                 => ENABLED (\E tc \in SessionCalls : Dispatch(j, tc))

\* the timer, issued first, still waits when the call issued after it has
\* returned
C14_Witness ==
    /\ calls[1].tool = "start_timer"
    /\ calls[1].phase = "sleeping"
    /\ calls[2].tool = "create_reminder"
    /\ calls[2].phase = "returned"
    /\ calls[2].response # None

\* C15: when the last participant leaves a bridge that listens for leaves,
\* one close request is issued, and the bridge is closed after the step
\* whether or not that request succeeds.
C15_BestEffortClose ==
    [][(on_disconnected /\ remote = 1 /\ remote' = 0)
        => /\ close_requests' = close_requests + 1
           /\ session' = "closed"]_vars

\* C16: once the session is closed it stays closed, and no later step issues
\* another close request or creates another session.
C16_ClosedTerminal ==
    [][session = "closed"
        => /\ session' = "closed"
           /\ close_requests' = close_requests
           /\ sessions_created' = sessions_created]_vars

\* C17: a call of create_reminder, list_reminders or complete_reminder sends
\* at most one HTTP request, and when the service failed the call has sent
\* exactly one request and has exactly one result, an error message.
C17_NoRetry ==
    \A i \in CallIds :
        calls[i].tool \in {"create_reminder", "list_reminders",
                           "complete_reminder"} =>
            /\ Len(calls[i].sent) <= 1
            /\ ServiceFailed(calls[i]) =>
                  /\ Len(calls[i].sent) = 1
                  /\ Len(calls[i].results) = 1
                  /\ IsErrorResult(calls[i].results[1])

\* C18: the opening greeting is requested at most once, only when the session
\* becomes active, which is after the presence gate: never while the bridge
\* connects or awaits presence, never before a participant was in the room,
\* and a session that is active has had its one greeting.
C18_GreetingOnce ==
    /\ greetings <= 1
    /\ pc \in {"connecting", "waiting"} => greetings = 0
    /\ greetings = 1 =>
          /\ pc = "ready"
          /\ sessions_created = 1
          /\ initial_remote > 0 \/ joins > 0
    /\ session = "started" => greetings = 1

\* the bridge awaited presence, a participant joined, and the session started
\* and greeted
C18_Witness ==
    /\ initial_remote = 0
    /\ joins > 0
    /\ session = "started"
    /\ greetings = 1

\* C19: no step clears the presence flag once it is set, and a
\* participant_connected notification that finds it set changes nothing of
\* the bridge but the room's participant count.
C19_PresenceMonotone ==
    [][/\ someone_present => someone_present'
       /\ (someone_present /\ joins' = joins + 1) =>
             UNCHANGED <<pc, someone_present, on_connected, on_disconnected,
                         session, sessions_created, close_requests,
                         greetings, calls>>]_vars

\* the flag is still set after a join, a leave to an empty room and a second
\* join
C19_Witness ==
    /\ someone_present
    /\ joins = 2
    /\ remote = 1
    /\ initial_remote = 0

====
